---- MODULE Spec2Model ----
(***************************************************************************)
(* Model of the entropy-ranked estimation-of-distribution networks of      *)
(* pointlander/testament.                                                  *)
(*                                                                         *)
(* Two Net types are modelled:                                             *)
(*   - the single-bank Net (src/unnamed/part_001, src/unnamed/part_000 and *)
(*     the second file of src/main.go carry the same Fire body),           *)
(*   - the multi-bank Net with the Q, K and V statistics (src/main.go).    *)
(*                                                                         *)
(* float32 values are modelled as exact rationals [n, d] with the IEEE     *)
(* specials NaN = 0/0 and +Inf = 1/0, -Inf = -1/0.  A standard deviation   *)
(* is held as its radicand (the value under math.Sqrt), so StdDev = r      *)
(* stands for sqrt(r); sqrt is monotone, keeps 0, 1, NaN and +Inf.         *)
(***************************************************************************)
EXTENDS Integers, Sequences, FiniteSets, TLC

VARIABLES
    rngs,   \* the heap of *rand.Rand objects: rng id -> generator state
    net,    \* net id -> the Net struct
    call,   \* net id -> the locals of the running (or last) Fire call
    fires,  \* net id -> number of Fire calls started
    sets,   \* net id -> number of SetWindow calls made
    hist,   \* net id -> what each finished Fire call returned and left
    feed,   \* the input vectors the driving loop supplies, in order
    loop    \* the locals of the wander-mode loop of main

vars == <<rngs, net, call, fires, sets, hist, feed, loop>>

----------------------------------------------------------------------------
(* Bounds of the model *)

\* population size; the sources set Samples = 256
Samples == 3
\* the inputs argument of NewNet (256, 32 or 16 in the sources)
Inputs == 2
\* the outputs argument of NewNet (16, 3 or 1 in the sources)
Outputs == 2
\* Fire calls per net
MaxFires == 2
\* SetWindow calls per net
MaxSets == 1

----------------------------------------------------------------------------
(* float32 *)

NaN == [n |-> 0, d |-> 0]
PosInf == [n |-> 1, d |-> 0]
NegInf == [n |-> -1, d |-> 0]

Abs(x) == IF x < 0 THEN -x ELSE x

RECURSIVE GCD(_, _)
GCD(a, b) == IF b = 0 THEN a ELSE GCD(b, a % b)

\* the float32 quotient n / d for d >= 0, in lowest terms
Quo(n, d) ==
    IF d = 0
    THEN (IF n = 0 THEN NaN ELSE IF n > 0 THEN PosInf ELSE NegInf)
    ELSE LET g == GCD(Abs(n), d) IN [n |-> n \div g, d |-> d \div g]

F(k) == [n |-> k, d |-> 1]

IsNaN(x) == x.d = 0 /\ x.n = 0
IsFinite(x) == x.d > 0

\* the float32 comparison a < b: false as soon as one side is NaN
FLess(a, b) ==
    /\ ~IsNaN(a)
    /\ ~IsNaN(b)
    /\ IF a.d = 0 \/ b.d = 0
       THEN \/ (a = NegInf /\ b # NegInf)
            \/ (b = PosInf /\ a # PosInf)
       ELSE a.n * b.d < b.n * a.d

----------------------------------------------------------------------------
(* math/rand: a seeded, deterministic stream of standard-normal draws *)

\* the values NormFloat64 can return in the model
ZVals ==
    << [n |-> 1, d |-> 1], [n |-> -1, d |-> 1], [n |-> 1, d |-> 4],
       [n |-> 0, d |-> 1], [n |-> -1, d |-> 4], [n |-> 1, d |-> 1],
       [n |-> -1, d |-> 1], [n |-> -1, d |-> 1], [n |-> 1, d |-> 4],
       [n |-> 1, d |-> 1], [n |-> -1, d |-> 4] >>

\* number of states of the modelled generator
RngMod == Len(ZVals)

\* rand.NewSource(seed): the generator state a seed gives
NewSource(seed) == seed % RngMod

\* the generator state after t more draws
Advance(s, t) == (s + t) % RngMod

\* rng.NormFloat64() in generator state s
NormFloat64(s) == ZVals[(s % Len(ZVals)) + 1]

----------------------------------------------------------------------------
(* Random, Set, NewStatistics, Sample *)

\* Random{Mean, StdDev}; StdDev holds the radicand of the standard deviation
Random(mean, stddev) == [Mean |-> mean, StdDev |-> stddev]

\* NewStatistics(inputs, outputs): Mean 0, StdDev 1 everywhere
NewStatistics(inputs, outputs) ==
    [i \in 1..outputs |-> [j \in 1..inputs |-> Random(F(0), F(1))]]

\* v := float32(z)*StdDev, the mean left out
PositiveNoMean(z, r) ==
    /\ IsFinite(r.Mean)
    /\ IsFinite(r.StdDev)
    /\ z.n > 0
    /\ r.StdDev.n > 0

\* the comparison v >= 0 in place of v > 0
PositiveOrZero(z, r) ==
    LET m == r.Mean
        q == r.StdDev
        lhs == z.n * z.n * q.n * m.d * m.d
        rhs == m.n * m.n * z.d * z.d * q.d
    IN  /\ IsFinite(m)
        /\ IsFinite(q)
        /\ IF z.n = 0 \/ q.n = 0 THEN m.n >= 0
           ELSE IF z.n > 0 THEN (m.n >= 0 \/ lhs >= rhs)
           ELSE (m.n > 0 /\ lhs <= rhs)

\* v := float32(z)*StdDev + Mean; v > 0, with z = z.n/z.d and
\* StdDev = sqrt(r.StdDev).  Every comparison with NaN is false.
Positive(z, r) ==
    LET m == r.Mean
        q == r.StdDev
        lhs == z.n * z.n * q.n * m.d * m.d   \* (z*StdDev)^2, cross-multiplied
        rhs == m.n * m.n * z.d * z.d * q.d   \* Mean^2, cross-multiplied
    IN  /\ IsFinite(m)
        /\ IsFinite(q)
        /\ IF z.n = 0 \/ q.n = 0 THEN m.n > 0
           ELSE IF z.n > 0 THEN (m.n >= 0 \/ lhs > rhs)
           ELSE (m.n > 0 /\ lhs < rhs)

\* the two branches of the quantisation exchanged
WeightFlipped(z, r) == IF Positive(z, r) THEN -1 ELSE 1

\* the quantised weight: 1 if v > 0, else -1
Weight(z, r) == IF Positive(z, r) THEN 1 ELSE -1

\* Set.Sample, and the same loop inlined in the single-bank Fire: the neurons
\* of one sample, drawn from generator state s (outputs*inputs draws, j outer)
Sample(dist, s, inputs, outputs) ==
    [j \in 1..outputs |->
        [k \in 1..inputs |->
            Weight(NormFloat64(Advance(s, (j - 1) * inputs + (k - 1))),
                   dist[j][k])]]

RECURSIVE Dot(_, _, _)
Dot(a, b, k) == IF k = 0 THEN 0 ELSE a[k] * b[k] + Dot(a, b, k - 1)

\* MulT(neuron, input).Data[0]: the dot product of one neuron with the input
MulT(neuron, input) == Dot(neuron, input, Len(neuron))

\* the population loop of Fire: Samples samples, each with its neurons and
\* its output vector; Entropy is float32's zero value until assigned.
\* Index is the sample's position in draw order (not a field of the source:
\* it names the sample once the slice is sorted).
Population(dist, s, input, inputs, outputs) ==
    [i \in 1..Samples |->
        LET neurons == Sample(dist, Advance(s, (i - 1) * outputs * inputs),
                              inputs, outputs)
        IN  [Entropy |-> F(0),
             Neurons |-> neurons,
             Outputs |-> [j \in 1..outputs |-> MulT(neurons[j], input)],
             Index |-> i]]

\* for i, entropy := range entropies { systems[i].Entropy = entropy }
\* (indexing past the end of systems panics: see Overrun)
SetEntropies(systems, entropies) ==
    [i \in 1..Len(systems) |->
        IF i <= Len(entropies)
        THEN [systems[i] EXCEPT !.Entropy = entropies[i]]
        ELSE systems[i]]

\* systems[i] with i >= len(systems): index out of range
Overrun(systems, entropies) == Len(entropies) > Len(systems)

----------------------------------------------------------------------------
(* sort.Slice: for slices of at most 12 elements pdqsort_func runs          *)
(* insertionSortLessFunc: for i := a+1; i < b; i++ {                         *)
(*     for j := i; j > a && less(j, j-1); j-- { swap(j, j-1) } }             *)
(* The less closure reads keys: the slice being sorted when aliased is TRUE  *)
(* (multi-bank Fire), the fixed slice other otherwise (single-bank Fire,     *)
(* which sorts entropies with a closure over systems).                       *)

Swap(data, i, j) == [data EXCEPT ![i] = data[j], ![j] = data[i]]

RECURSIVE Sift(_, _, _, _)
Sift(data, other, aliased, j) ==
    IF j <= 1 THEN data
    ELSE LET a == IF aliased THEN data[j].Entropy ELSE other[j].Entropy
             b == IF aliased THEN data[j - 1].Entropy ELSE other[j - 1].Entropy
         IN  IF FLess(a, b)
             THEN Sift(Swap(data, j, j - 1), other, aliased, j - 1)
             ELSE data

RECURSIVE Insertion(_, _, _, _)
Insertion(data, other, aliased, i) ==
    IF i > Len(data) THEN data
    ELSE Insertion(Sift(data, other, aliased, i), other, aliased, i + 1)

\* sort.Slice(systemsX, func(i, j) { systemsX[i].Entropy < systemsX[j].Entropy })
SortSystems(systems) == Insertion(systems, systems, TRUE, 2)

\* sort.Slice(entropies, func(i, j) { systems[i].Entropy < systems[j].Entropy }):
\* the swaps move entropies, the comparisons read systems, which stays as it is
SortEntropies(entropies, systems) ==
    LET wrapped == [i \in 1..Len(entropies) |-> [Entropy |-> entropies[i]]]
        sorted == Insertion(wrapped, systems, FALSE, 2)
    IN  [i \in 1..Len(entropies) |-> sorted[i].Entropy]

----------------------------------------------------------------------------
(* the re-estimation of the statistics from systems[:window] *)

\* systems[:window] panics unless 0 <= window <= cap(systems); the appends
\* of Fire leave cap(systems) = len(systems) for 256 samples
SliceOK(systems, window) == 0 <= window /\ window <= Len(systems)

RECURSIVE SumMean(_, _, _, _)
SumMean(systems, j, k, i) ==
    IF i = 0 THEN 0 ELSE systems[i].Neurons[j][k] + SumMean(systems, j, k, i - 1)

\* sum over i < window of (Mean - value)^2, with Mean = m.n/m.d, times m.d^2
RECURSIVE SumDiff(_, _, _, _, _)
SumDiff(systems, j, k, m, i) ==
    IF i = 0 THEN 0
    ELSE LET diff == m.n - systems[i].Neurons[j][k] * m.d
         IN  diff * diff + SumDiff(systems, j, k, m, i - 1)

\* the squared deviations divided by window - 1 in place of window
EstimateUnbiased(systems, window, j, k) ==
    LET mean == Quo(SumMean(systems, j, k, window), window)
        stddev == IF IsFinite(mean)
                  THEN Quo(SumDiff(systems, j, k, mean, window),
                           mean.d * mean.d * (window - 1))
                  ELSE NaN
    IN  Random(mean, stddev)

\* Mean /= float32(window); StdDev /= float32(window); StdDev = sqrt(StdDev)
Estimate(systems, window, j, k) ==
    LET mean == Quo(SumMean(systems, j, k, window), window)
        stddev == IF IsFinite(mean)
                  THEN Quo(SumDiff(systems, j, k, mean, window),
                           mean.d * mean.d * window)
                  ELSE NaN
    IN  Random(mean, stddev)

\* Net.CalculateStatistics(systems) with the window it loaded, and the same
\* loops inlined in the single-bank Fire (next)
CalculateStatistics(systems, window, inputs, outputs) ==
    [j \in 1..outputs |-> [k \in 1..inputs |-> Estimate(systems, window, j, k)]]

----------------------------------------------------------------------------
(* the environment: seeds, windows, input vectors, the fitness oracle *)

\* the seeds the sources give NewNet
Seeds == {1, 2}

\* the oracle's finite scores are 0..MaxScore: enough to rank all samples
MaxScore == Samples - 1

\* the window arguments callers pass to NewNet and SetWindow
WindowArgs == 0..(Samples + 1)

InputVectors ==
    { [k \in 1..Inputs |-> k], [k \in 1..Inputs |-> IF k = 1 THEN -2 ELSE 1] }

\* what SelfEntropy may return when it keeps its contract: Samples finite scores
ValidResults == [1..Samples -> {F(x) : x \in 0..MaxScore}]

\* results that break the contract: a score too few, a score too many,
\* a NaN or an infinite score
ShortResult == [i \in 1..(Samples - 1) |-> F(1)]
LongResult == [i \in 1..(Samples + 1) |-> F(1)]
NonFiniteResults ==
    { [[i \in 1..Samples |-> F(1)] EXCEPT ![p] = x] :
        p \in 1..Samples, x \in {NaN, PosInf} }

OracleResults ==
    ValidResults \cup {ShortResult, LongResult} \cup NonFiniteResults

OracleOK(entropies) ==
    /\ Len(entropies) = Samples
    /\ \A i \in 1..Samples : IsFinite(entropies[i])

\* the wander flag is not set: main never enters the wander-mode loop
NotWandering == [pc |-> "off"]

----------------------------------------------------------------------------
(* the single-bank Net *)

\* NewNet(seed, window, inputs, outputs) of the single-bank files; rng is
\* the generator rand.New allocates for this net
NewNet(rng, window, inputs, outputs) ==
    [window |-> window, Inputs |-> inputs, Outputs |-> outputs, Rng |-> rng,
     Distribution |-> NewStatistics(inputs, outputs)]

\* the locals of a Fire call that has not started
Idle ==
    [pc |-> "idle", window |-> 0, distribution |-> <<>>, input |-> <<>>,
     systems |-> <<>>, entropies |-> <<>>, ret |-> <<>>, pre |-> <<>>,
     rng0 |-> 0]

\* the sampling loop of Fire from generator state s: the population in draw
\* order and the generator state it leaves
Draw(n, loaded, s) ==
    [systems |-> Population(loaded.distribution, s, loaded.input,
                            n.Inputs, n.Outputs),
     rng |-> Advance(s, Samples * n.Outputs * n.Inputs)]

\* the rest of Fire, given the scores SelfEntropy returns: the outcome
\* ("returned" or "panicked"), the next distribution, and the locals
Rank(n, loaded, entropies) ==
    LET systems == SetEntropies(loaded.systems, entropies)
        ok == /\ ~Overrun(loaded.systems, entropies)
              /\ SliceOK(systems, loaded.window)
    IN  [pc |-> IF ok THEN "returned" ELSE "panicked",
         systems |-> systems,
         entropies |-> IF Overrun(loaded.systems, entropies) THEN entropies
                       ELSE SortEntropies(entropies, systems),
         Distribution |-> IF ok
                          THEN CalculateStatistics(systems, loaded.window,
                                                   n.Inputs, n.Outputs)
                          ELSE n.Distribution,
         ret |-> IF ok THEN systems[1].Outputs ELSE <<>>]

\* rng, distribution, window := n.Rng, n.Distribution, atomic.LoadInt64(&n.window)
FireLoad(id) ==
    /\ call[id].pc \in {"idle", "returned", "panicked"}
    /\ fires[id] < MaxFires
    /\ \E input \in InputVectors :
        call' = [call EXCEPT ![id] =
                    [Idle EXCEPT !.pc = "loaded",
                                 !.window = net[id].window,
                                 !.distribution = net[id].Distribution,
                                 !.input = input,
                                 !.pre = net[id].Distribution,
                                 !.rng0 = rngs[net[id].Rng]]]
    /\ fires' = [fires EXCEPT ![id] = @ + 1]
    /\ UNCHANGED <<rngs, net, sets, hist, feed, loop>>

\* for i := 0; i < Samples; i++ { ... }: the population is drawn
FireSample(id) ==
    /\ call[id].pc = "loaded"
    /\ LET r == Draw(net[id], call[id], rngs[net[id].Rng])
       IN  /\ rngs' = [rngs EXCEPT ![net[id].Rng] = r.rng]
           /\ call' = [call EXCEPT ![id].pc = "sampled",
                                   ![id].systems = r.systems]
    /\ UNCHANGED <<net, fires, sets, hist, feed, loop>>

\* SelfEntropy, the sort, the re-estimation, n.Distribution = next, return
FireRank(id) ==
    /\ call[id].pc = "sampled"
    /\ \E entropies \in OracleResults :
        LET r == Rank(net[id], call[id], entropies)
        IN  /\ net' = [net EXCEPT ![id].Distribution = r.Distribution]
            /\ call' = [call EXCEPT ![id].pc = r.pc,
                                    ![id].systems = r.systems,
                                    ![id].entropies = r.entropies,
                                    ![id].ret = r.ret]
    /\ UNCHANGED <<rngs, fires, sets, hist, feed, loop>>

\* atomic.StoreInt64(&n.window, window)
SetWindow(id) ==
    /\ sets[id] < MaxSets
    /\ \E window \in WindowArgs :
        net' = [net EXCEPT ![id].window = window]
    /\ sets' = [sets EXCEPT ![id] = @ + 1]
    /\ UNCHANGED <<rngs, call, fires, hist, feed, loop>>

InitSingle ==
    /\ \E seed \in Seeds, window \in WindowArgs :
        /\ rngs = [r \in {1} |-> NewSource(seed)]
        /\ net = [id \in {1} |-> NewNet(1, window, Inputs, Outputs)]
    /\ call = [id \in {1} |-> Idle]
    /\ fires = [id \in {1} |-> 0]
    /\ sets = [id \in {1} |-> 0]
    /\ hist = [id \in {1} |-> <<>>]
    /\ feed = <<>>
    /\ loop = NotWandering

NextSingle == FireLoad(1) \/ FireSample(1) \/ FireRank(1) \/ SetWindow(1)

SpecSingle == InitSingle /\ [][NextSingle]_vars

----------------------------------------------------------------------------
(* the multi-bank Net of src/main.go: the statistics Q, K and V *)

\* NewNet(seed, window, inputs, outputs) of the multi-bank file
NewNetMulti(rng, window, inputs, outputs) ==
    [window |-> window, Inputs |-> inputs, Outputs |-> outputs, Rng |-> rng,
     Q |-> NewStatistics(inputs, outputs),
     K |-> NewStatistics(inputs, outputs),
     V |-> NewStatistics(inputs, outputs)]

\* the locals of a multi-bank Fire call that has not started; windowQ,
\* windowK and windowV are the window each CalculateStatistics call loaded
IdleMulti ==
    [pc |-> "idle", input |-> <<>>, systemsQ |-> <<>>, systemsK |-> <<>>,
     systemsV |-> <<>>, entropies |-> <<>>, ret |-> <<>>,
     preQ |-> <<>>, preK |-> <<>>, preV |-> <<>>, rng0 |-> 0,
     windowQ |-> 0, windowK |-> 0, windowV |-> 0]

\* the three sampling loops of Fire from generator state s: Q, then K, then V
DrawMulti(n, input, s) ==
    LET each == Samples * n.Outputs * n.Inputs
    IN  [systemsQ |-> Population(n.Q, s, input, n.Inputs, n.Outputs),
         systemsK |-> Population(n.K, Advance(s, each), input,
                                 n.Inputs, n.Outputs),
         systemsV |-> Population(n.V, Advance(s, 2 * each), input,
                                 n.Inputs, n.Outputs),
         rng |-> Advance(s, 3 * each)]

\* entropies := SelfEntropy(q, k, v); the score at i goes to the Q, K and V
\* sample at i; then the three sort.Slice calls
RankMulti(loaded, entropies) ==
    IF Overrun(loaded.systemsQ, entropies)
    THEN [pc |-> "panicked", systemsQ |-> loaded.systemsQ,
          systemsK |-> loaded.systemsK, systemsV |-> loaded.systemsV]
    ELSE [pc |-> "sorted",
          systemsQ |-> SortSystems(SetEntropies(loaded.systemsQ, entropies)),
          systemsK |-> SortSystems(SetEntropies(loaded.systemsK, entropies)),
          systemsV |-> SortSystems(SetEntropies(loaded.systemsV, entropies))]

\* return systemsV[0].Outputs
BestOfQ(systemsQ, systemsK, systemsV) == systemsQ[1].Outputs
Best(systemsQ, systemsK, systemsV) == systemsV[1].Outputs

\* the three sampling loops
MFireSample(id) ==
    /\ call[id].pc \in {"idle", "returned", "panicked"}
    /\ fires[id] < MaxFires
    /\ \E input \in InputVectors :
        LET r == DrawMulti(net[id], input, rngs[net[id].Rng])
        IN  /\ rngs' = [rngs EXCEPT ![net[id].Rng] = r.rng]
            /\ call' = [call EXCEPT ![id] =
                          [IdleMulti EXCEPT !.pc = "sampled",
                                            !.input = input,
                                            !.systemsQ = r.systemsQ,
                                            !.systemsK = r.systemsK,
                                            !.systemsV = r.systemsV,
                                            !.preQ = net[id].Q,
                                            !.preK = net[id].K,
                                            !.preV = net[id].V,
                                            !.rng0 = rngs[net[id].Rng]]]
    /\ fires' = [fires EXCEPT ![id] = @ + 1]
    /\ UNCHANGED <<net, sets, hist, feed, loop>>

\* SelfEntropy(q, k, v), the assignment of the scores, the three sorts
MFireRank(id) ==
    /\ call[id].pc = "sampled"
    /\ \E entropies \in OracleResults :
        LET r == RankMulti(call[id], entropies)
        IN  call' = [call EXCEPT ![id].pc = r.pc,
                                 ![id].entropies = entropies,
                                 ![id].systemsQ = r.systemsQ,
                                 ![id].systemsK = r.systemsK,
                                 ![id].systemsV = r.systemsV]
    /\ UNCHANGED <<rngs, net, fires, sets, hist, feed, loop>>

\* n.Q = n.CalculateStatistics(systemsQ): the call loads the window
MFireQ(id) ==
    /\ call[id].pc = "sorted"
    /\ LET window == net[id].window
       IN  IF SliceOK(call[id].systemsQ, window)
           THEN /\ net' = [net EXCEPT ![id].Q =
                            CalculateStatistics(call[id].systemsQ, window,
                                                net[id].Inputs, net[id].Outputs)]
                /\ call' = [call EXCEPT ![id].pc = "q", ![id].windowQ = window]
           ELSE /\ net' = net
                /\ call' = [call EXCEPT ![id].pc = "panicked",
                                        ![id].windowQ = window]
    /\ UNCHANGED <<rngs, fires, sets, hist, feed, loop>>

\* n.K = n.CalculateStatistics(systemsK)
MFireK(id) ==
    /\ call[id].pc = "q"
    /\ LET window == net[id].window
       IN  IF SliceOK(call[id].systemsK, window)
           THEN /\ net' = [net EXCEPT ![id].K =
                            CalculateStatistics(call[id].systemsK, window,
                                                net[id].Inputs, net[id].Outputs)]
                /\ call' = [call EXCEPT ![id].pc = "k", ![id].windowK = window]
           ELSE /\ net' = net
                /\ call' = [call EXCEPT ![id].pc = "panicked",
                                        ![id].windowK = window]
    /\ UNCHANGED <<rngs, fires, sets, hist, feed, loop>>

\* n.V = n.CalculateStatistics(systemsV); return systemsV[0].Outputs
MFireV(id) ==
    /\ call[id].pc = "k"
    /\ LET window == net[id].window
       IN  IF SliceOK(call[id].systemsV, window)
           THEN /\ net' = [net EXCEPT ![id].V =
                            CalculateStatistics(call[id].systemsV, window,
                                                net[id].Inputs, net[id].Outputs)]
                /\ call' = [call EXCEPT ![id].pc = "returned",
                                        ![id].windowV = window,
                                        ![id].ret = Best(call[id].systemsQ,
                                                         call[id].systemsK,
                                                         call[id].systemsV)]
           ELSE /\ net' = net
                /\ call' = [call EXCEPT ![id].pc = "panicked",
                                        ![id].windowV = window]
    /\ UNCHANGED <<rngs, fires, sets, hist, feed, loop>>

InitMulti ==
    /\ \E seed \in Seeds, window \in WindowArgs :
        /\ rngs = [r \in {1} |-> NewSource(seed)]
        /\ net = [id \in {1} |-> NewNetMulti(1, window, Inputs, Outputs)]
    /\ call = [id \in {1} |-> IdleMulti]
    /\ fires = [id \in {1} |-> 0]
    /\ sets = [id \in {1} |-> 0]
    /\ hist = [id \in {1} |-> <<>>]
    /\ feed = <<>>
    /\ loop = NotWandering

NextMulti ==
    \/ MFireSample(1)
    \/ MFireRank(1)
    \/ MFireQ(1)
    \/ MFireK(1)
    \/ MFireV(1)
    \/ SetWindow(1)

SpecMulti == InitMulti /\ [][NextMulti]_vars

----------------------------------------------------------------------------
(* two nets built alike and driven with the same inputs, each Fire call run  *)
(* to its end before the next step (no SetWindow call in between)            *)

\* rand.New(rand.NewSource(seed)): every net gets a generator of its own
RandShared(id) == 1
RandNew(id) == id

\* a deterministic stand-in for SelfEntropy(q, k, v): one score per column
SelfEntropy(q, k, v) ==
    [i \in 1..Len(q) |->
        F(Abs(Dot(q[i], [j \in 1..Len(q[i]) |-> 1], Len(q[i]))
              + 2 * Dot(k[i], [j \in 1..Len(k[i]) |-> j], Len(k[i]))
              + 3 * v[i][1]) % (MaxScore + 1))]

\* the columns of the output matrix Fire hands to SelfEntropy
Columns(systems) == [i \in 1..Len(systems) |-> systems[i].Outputs]

\* one whole single-bank Fire call on net n from generator state s
FireSingleCall(n, s, input) ==
    LET loaded == [Idle EXCEPT !.window = n.window,
                               !.distribution = n.Distribution,
                               !.input = input]
        d == Draw(n, loaded, s)
        output == Columns(d.systems)
        r == Rank(n, [loaded EXCEPT !.systems = d.systems],
                  SelfEntropy(output, output, output))
    IN  [net |-> [n EXCEPT !.Distribution = r.Distribution],
         rng |-> d.rng, pc |-> r.pc, ret |-> r.ret]

\* one whole multi-bank Fire call on net n from generator state s
FireMultiCall(n, s, input) ==
    LET d == DrawMulti(n, input, s)
        r == RankMulti(d, SelfEntropy(Columns(d.systemsQ), Columns(d.systemsK),
                                      Columns(d.systemsV)))
        ok == r.pc = "sorted" /\ SliceOK(r.systemsQ, n.window)
    IN  [net |-> IF ok
                 THEN [n EXCEPT
                         !.Q = CalculateStatistics(r.systemsQ, n.window,
                                                   n.Inputs, n.Outputs),
                         !.K = CalculateStatistics(r.systemsK, n.window,
                                                   n.Inputs, n.Outputs),
                         !.V = CalculateStatistics(r.systemsV, n.window,
                                                   n.Inputs, n.Outputs)]
                 ELSE n,
         rng |-> d.rng,
         pc |-> IF ok THEN "returned" ELSE "panicked",
         ret |-> IF ok THEN Best(r.systemsQ, r.systemsK, r.systemsV) ELSE <<>>]

\* out := net.Fire(in) in the driving loop, on the next input of the feed
DetFire(id) ==
    /\ Len(hist[id]) < Len(feed)
    /\ LET input == feed[Len(hist[id]) + 1]
           s == rngs[net[id].Rng]
           r == IF "Q" \in DOMAIN net[id]
                THEN FireMultiCall(net[id], s, input)
                ELSE FireSingleCall(net[id], s, input)
       IN  /\ rngs' = [rngs EXCEPT ![net[id].Rng] = r.rng]
           /\ net' = [net EXCEPT ![id] = r.net]
           /\ hist' = [hist EXCEPT ![id] =
                         Append(@, [pc |-> r.pc, ret |-> r.ret, net |-> r.net])]
    /\ UNCHANGED <<call, fires, sets, feed, loop>>

InitDet ==
    /\ \E seed \in Seeds, window \in WindowArgs, multi \in BOOLEAN :
        /\ rngs = [r \in {1, 2} |-> NewSource(seed)]
        /\ net = [id \in {1, 2} |->
                    IF multi
                    THEN NewNetMulti(RandNew(id), window, Inputs, Outputs)
                    ELSE NewNet(RandNew(id), window, Inputs, Outputs)]
    /\ call = [id \in {1, 2} |-> Idle]
    /\ fires = [id \in {1, 2} |-> 0]
    /\ sets = [id \in {1, 2} |-> 0]
    /\ hist = [id \in {1, 2} |-> <<>>]
    /\ feed \in [1..MaxFires -> InputVectors]
    /\ loop = NotWandering

NextDet == DetFire(1) \/ DetFire(2)

SpecDet == InitDet /\ [][NextDet]_vars

----------------------------------------------------------------------------
(* reference definitions the properties are stated with *)

\* the sample drawn i-th, wherever a sort has moved it
Drawn(systems, i) == CHOOSE x \in {systems[p] : p \in 1..Len(systems)} : x.Index = i

\* the score the oracle gave the sample drawn i-th
Score(systems, i) == Drawn(systems, i).Entropy

\* E holds w samples and no sample outside E scores strictly lower than one in E
IsElite(systems, E, w) ==
    /\ Cardinality(E) = w
    /\ \A i \in E : \A o \in (1..Len(systems)) \ E :
         ~FLess(Score(systems, o), Score(systems, i))

\* the draw positions of the first w entries of a slice
Prefix(systems, w) == {systems[p].Index : p \in 1..w}

RECURSIVE SumOver(_, _, _, _, _)
SumOver(systems, E, j, k, i) ==
    IF i = 0 THEN 0
    ELSE (IF i \in E THEN Drawn(systems, i).Neurons[j][k] ELSE 0)
         + SumOver(systems, E, j, k, i - 1)

\* the arithmetic mean of weight[j][k] over the samples of E, and the mean
\* squared deviation from it (as mean of squares minus square of mean; every
\* weight is 1 or -1, so each square is 1)
EliteRandom(systems, E, j, k) ==
    LET c == Cardinality(E)
        sum == SumOver(systems, E, j, k, Len(systems))
    IN  Random(Quo(sum, c), Quo(c * c - sum * sum, c * c))

EliteBelief(systems, E, inputs, outputs) ==
    [j \in 1..outputs |-> [k \in 1..inputs |-> EliteRandom(systems, E, j, k)]]

\* a single-bank Fire call of net 1 has returned, having loaded a window in
\* [1, Samples] and been given Samples finite scores
SingleReturned ==
    /\ call[1].pc = "returned"
    /\ call[1].window \in 1..Samples
    /\ OracleOK(call[1].entropies)

----------------------------------------------------------------------------
(* C1: after a single-bank Fire with a window w in [1, Samples], the belief  *)
(* the call wrote is, at every (u, d), the mean and the root mean squared    *)
(* deviation of weight[u][d] over exactly w samples with the lowest fitness  *)
(* scores, whatever order the samples were drawn in.                         *)
C1_EliteOnlyUpdate ==
    SingleReturned =>
        \E E \in SUBSET (1..Samples) :
            /\ IsElite(call[1].systems, E, call[1].window)
            /\ net[1].Distribution =
                 EliteBelief(call[1].systems, E, Inputs, Outputs)

(* C2: a single-bank Fire returns the output vector of a sample whose        *)
(* fitness score is the minimum over the Samples samples.                    *)
C2_ReturnsMostElite ==
    SingleReturned =>
        \E i \in 1..Samples :
            /\ \A o \in 1..Samples :
                 ~FLess(Score(call[1].systems, o), Score(call[1].systems, i))
            /\ call[1].ret = Drawn(call[1].systems, i).Outputs

\* a multi-bank Fire call of net 1 has returned, having been given Samples
\* finite scores and having loaded windows in [1, Samples]
MultiReturned ==
    /\ call[1].pc = "returned"
    /\ OracleOK(call[1].entropies)
    /\ {call[1].windowQ, call[1].windowK, call[1].windowV} \subseteq 1..Samples

\* the draw positions whose weights fed the Q, K and V update of the call
FedQ == Prefix(call[1].systemsQ, call[1].windowQ)
FedK == Prefix(call[1].systemsK, call[1].windowK)
FedV == Prefix(call[1].systemsV, call[1].windowV)

(* C3: multi-bank Fire uses one joint ranking: the draw positions whose      *)
(* weights feed the update are the same set for Q, K and V, for every score  *)
(* vector (ties included); the set has window elements, and no excluded      *)
(* position has a strictly lower score than an included one.                 *)
C3_JointElite ==
    MultiReturned =>
        /\ FedQ = FedK
        /\ FedK = FedV
        /\ Cardinality(FedV) = call[1].windowV
        /\ IsElite(call[1].systemsV, FedV, call[1].windowV)

\* the ranking itself is joint: after the three sorts the first w entries of
\* systemsQ, systemsK and systemsV are the same draw positions for every w,
\* and they are w lowest-scoring positions
JointRanking ==
    call[1].pc \in {"sorted", "q", "k", "returned"} =>
        \A w \in 0..Samples :
            /\ Prefix(call[1].systemsQ, w) = Prefix(call[1].systemsK, w)
            /\ Prefix(call[1].systemsK, w) = Prefix(call[1].systemsV, w)
            /\ OracleOK(call[1].entropies) =>
                 IsElite(call[1].systemsV, Prefix(call[1].systemsV, w), w)

(* C4: multi-bank Fire returns the output vector of the V sample at a draw   *)
(* position whose joint score is the minimum over all Samples positions.     *)
C4_ReturnsBestV ==
    MultiReturned =>
        \E i \in 1..Samples :
            /\ \A o \in 1..Samples :
                 ~FLess(Score(call[1].systemsV, o), Score(call[1].systemsV, i))
            /\ call[1].ret = Drawn(call[1].systemsV, i).Outputs

\* a multi-bank Fire has returned the output of a V sample that was not drawn
\* first and whose Q and K companions at the same position have other outputs
C4_Witness ==
    /\ MultiReturned
    /\ call[1].systemsV[1].Index # 1
    /\ call[1].ret = call[1].systemsV[1].Outputs
    /\ call[1].ret # Drawn(call[1].systemsV, 1).Outputs
    /\ call[1].ret # call[1].systemsQ[1].Outputs
    /\ call[1].ret # call[1].systemsK[1].Outputs

(* C5: SetWindow validates its argument: a call with a window outside        *)
(* [1, Samples] is rejected and leaves the stored window and every belief    *)
(* of the net as they were.                                                  *)
C5_SetWindowValidates ==
    [][(sets' # sets /\ net'[1].window \notin 1..Samples) => net' = net]_vars

(* C6: the window is read once per Fire call and held fixed for that call:   *)
(* in multi-bank mode the Q, K and V updates of one Fire call all use the    *)
(* same window value, under any interleaving of SetWindow calls.             *)
C6_OneWindowPerFire ==
    MultiReturned =>
        /\ call[1].windowQ = call[1].windowK
        /\ call[1].windowK = call[1].windowV

(* C7: oracle contract violations are surfaced and cause no update: if the   *)
(* oracle returns a number of scores other than Samples, or a NaN or         *)
(* infinite score, the Fire call aborts and the belief equals its value      *)
(* before the call.                                                          *)
C7_OracleViolationAborts ==
    (/\ call[1].pc \in {"returned", "panicked"}
     /\ call[1].window \in 1..Samples
     /\ ~OracleOK(call[1].entropies))
        => (call[1].pc = "panicked" /\ net[1].Distribution = call[1].pre)

(* C8: a window outside [1, Samples] is rejected before any sampling: no     *)
(* Fire call has drawn its population from the generator, or written a       *)
(* belief, while the window it uses is outside [1, Samples].                 *)
C8_NoSamplingWithBadWindow ==
    call[1].pc \in {"sampled", "returned", "panicked"}
        => call[1].window \in 1..Samples

\* every coordinate of a belief has a defined standard deviation >= 0, and
\* the belief has outputs rows of inputs entries
WellFormed(set, inputs, outputs) ==
    /\ Len(set) = outputs
    /\ \A j \in 1..outputs :
        /\ Len(set[j]) = inputs
        /\ \A k \in 1..inputs :
            /\ IsFinite(set[j][k].StdDev)
            /\ set[j][k].StdDev.n >= 0

(* C9: in every state reachable from NewNet by SetWindow and Fire calls,     *)
(* every coordinate of the belief has a stddev that is a defined number      *)
(* >= 0, and the belief keeps Outputs rows of Inputs entries.                *)
C9_StdDevDefined == WellFormed(net[1].Distribution, Inputs, Outputs)

\* what a net holds apart from the identity of its generator
Belief(n) == [n EXCEPT !.Rng = 0]

(* C10: determinism: two nets constructed with the same seed, window and     *)
(* dimensions and given the same sequence of input vectors and a             *)
(* deterministic oracle return identical output vectors and hold identical   *)
(* beliefs after every Fire call of the sequence.                            *)
C10_Deterministic ==
    \A c \in 1..MaxFires :
        (c <= Len(hist[1]) /\ c <= Len(hist[2])) =>
            /\ hist[1][c].pc = hist[2][c].pc
            /\ hist[1][c].ret = hist[2][c].ret
            /\ Belief(hist[1][c].net) = Belief(hist[2][c].net)

\* both nets have made every call of the feed, the calls returned, and the
\* belief moved between the first call and the last
C10_Witness ==
    /\ Len(hist[1]) = MaxFires
    /\ Len(hist[2]) = MaxFires
    /\ hist[1][MaxFires].pc = "returned"
    /\ Belief(hist[1][1].net) # Belief(hist[1][MaxFires].net)
    /\ hist[1][1].ret # hist[1][MaxFires].ret

----------------------------------------------------------------------------
(* the reparameterized value of a draw, computed apart from Positive *)

\* the integer square root
ISqrt(n) == CHOOSE s \in 0..n : s * s <= n /\ (s + 1) * (s + 1) > n

\* z*sqrt(q) + m for finite m and q >= 0, times the positive z.d*q.d*m.d, is
\* a*sqrt(root) + b; sqrt(root) lies in [s, s + 1), and is s when s*s = root
ValueBounds(z, r) ==
    LET m == r.Mean
        q == r.StdDev
        a == z.n * m.d
        b == m.n * z.d * q.d
        root == q.n * q.d
        s == ISqrt(root)
        t == IF s * s = root THEN s ELSE s + 1
    IN  [lo |-> IF a >= 0 THEN a * s + b ELSE a * t + b,
         hi |-> IF a >= 0 THEN a * t + b ELSE a * s + b]

\* the value is a number and both bounds put it above 0
ValuePositive(z, r) ==
    /\ IsFinite(r.Mean)
    /\ IsFinite(r.StdDev)
    /\ ValueBounds(z, r).lo > 0

\* the value is NaN, or both bounds put it at or below 0
ValueNotPositive(z, r) ==
    \/ ~IsFinite(r.Mean)
    \/ ~IsFinite(r.StdDev)
    \/ ValueBounds(z, r).hi <= 0

\* the value is exactly 0
ValueZero(z, r) ==
    /\ IsFinite(r.Mean)
    /\ IsFinite(r.StdDev)
    /\ ValueBounds(z, r).lo = 0
    /\ ValueBounds(z, r).hi = 0

\* the standard-normal draw behind weight[j][k] of the sample drawn i-th in a
\* Fire call that started in generator state rng0
DrawOf(rng0, i, j, k) ==
    NormFloat64(Advance(rng0, (i - 1) * Outputs * Inputs + (j - 1) * Inputs
                              + (k - 1)))

\* a single-bank Fire call of net 1 has drawn its population
SingleSampled == call[1].pc \in {"sampled", "returned", "panicked"}

(* C11: sign quantization: every weight of every sample is 1 or -1; it is 1  *)
(* when mean + z*stddev is strictly greater than 0 and -1 otherwise, so a    *)
(* value of exactly 0 gives -1.                                              *)
C11_SignQuantization ==
    SingleSampled =>
        \A i \in 1..Samples, j \in 1..Outputs, k \in 1..Inputs :
            LET z == DrawOf(call[1].rng0, i, j, k)
                r == call[1].distribution[j][k]
                w == Drawn(call[1].systems, i).Neurons[j][k]
            IN  /\ w \in {1, -1}
                /\ ValuePositive(z, r) => w = 1
                /\ ValueNotPositive(z, r) => w = -1

\* a population holds a weight whose value was exactly 0, one whose value was
\* above 0 and one whose value was below 0 with a non-zero draw
C11_Witness ==
    /\ SingleSampled
    /\ \E i \in 1..Samples, j \in 1..Outputs, k \in 1..Inputs :
         /\ ValueZero(DrawOf(call[1].rng0, i, j, k), call[1].distribution[j][k])
         /\ call[1].systems[i].Neurons[j][k] = -1
    /\ \E i \in 1..Samples, j \in 1..Outputs, k \in 1..Inputs :
         /\ ValuePositive(DrawOf(call[1].rng0, i, j, k),
                          call[1].distribution[j][k])
         /\ call[1].systems[i].Neurons[j][k] = 1
    /\ \E i \in 1..Samples, j \in 1..Outputs, k \in 1..Inputs :
         /\ DrawOf(call[1].rng0, i, j, k).n < 0
         /\ call[1].distribution[j][k].StdDev.n > 0
         /\ call[1].systems[i].Neurons[j][k] = -1

\* every StdDev of the belief is 0 and every Mean is 1 or -1
Degenerate(set) ==
    \A j \in 1..Len(set) : \A k \in 1..Len(set[j]) :
        /\ set[j][k].StdDev = F(0)
        /\ set[j][k].Mean \in {F(1), F(-1)}

\* the weight bank a degenerate belief stands for
BankOf(set) == [j \in 1..Len(set) |-> [k \in 1..Len(set[j]) |-> set[j][k].Mean.n]]

(* C12: degenerate collapse: when a Fire call with a window in [1, Samples]  *)
(* starts from a belief whose every stddev is 0 and every mean is 1 or -1,   *)
(* all Samples samples get the weight bank weight[u][d] = mean[u][d], and    *)
(* the call leaves every mean and stddev as it was, for any input and any    *)
(* scores.                                                                   *)
C12_DegenerateCollapse ==
    (/\ SingleSampled
     /\ call[1].window \in 1..Samples
     /\ Degenerate(call[1].pre))
        => /\ \A i \in 1..Samples :
                call[1].systems[i].Neurons = BankOf(call[1].pre)
           /\ net[1].Distribution = call[1].pre

\* a Fire call that started from a degenerate belief has returned with a
\* window above 1 and scores that are not all equal
C12_Witness ==
    /\ SingleReturned
    /\ Degenerate(call[1].pre)
    /\ call[1].window > 1
    /\ \E i, o \in 1..Samples :
         FLess(call[1].systems[i].Entropy, call[1].systems[o].Entropy)
    /\ \E j \in 1..Outputs, k, l \in 1..Inputs :
         call[1].pre[j][k].Mean # call[1].pre[j][l].Mean

\* a Fire call that loaded window 1 has returned: the belief is degenerate
AbsorbedAfterFire ==
    (call[1].pc = "returned" /\ call[1].window = 1)
        => Degenerate(net[1].Distribution)

\* a Fire call that loaded window 1 and started from a degenerate belief has
\* drawn every sample at the means
FrozenDraws ==
    (SingleSampled /\ call[1].window = 1 /\ Degenerate(call[1].pre))
        => \A i \in 1..Samples :
               call[1].systems[i].Neurons = BankOf(call[1].pre)

\* a step from a degenerate belief, of a call that loaded window 1 if it is
\* the end of a call, leaves the belief as it is
StaysAbsorbed ==
    (/\ Degenerate(net[1].Distribution)
     /\ call[1].pc = "sampled" => call[1].window = 1)
        => net'[1].Distribution = net[1].Distribution

(* C13: absorption with window = 1: a Fire call that used window 1 leaves    *)
(* every coordinate with stddev 0 and a mean of 1 or -1; every later Fire    *)
(* call with window 1 draws all Samples samples with weight[u][d] equal to   *)
(* that mean, and the belief never changes again.                            *)
C13_Absorption ==
    /\ []AbsorbedAfterFire
    /\ []FrozenDraws
    /\ [][StaysAbsorbed]_vars

\* the window has been 1 since NewNet, the second Fire call has returned, it
\* started from the degenerate belief the first one left and left it the same
C13_Witness ==
    /\ sets[1] = 0
    /\ net[1].window = 1
    /\ fires[1] = 2
    /\ SingleReturned
    /\ call[1].window = 1
    /\ Degenerate(call[1].pre)
    /\ net[1].Distribution = call[1].pre
    /\ \E i, o \in 1..Samples :
         FLess(call[1].systems[i].Entropy, call[1].systems[o].Entropy)

----------------------------------------------------------------------------
(* the wander-mode loop of main: src/unnamed/part_000 (variant "scan") and   *)
(* the first file of src/main.go (variant "break", which leaves the loop     *)
(* when the output points at a seen position).  The loop reads nothing of    *)
(* the net but the vector Fire returns, so out := net.Fire(in) is modelled   *)
(* by its result: any vector of Outputs numbers, each known by its sign.     *)

\* the longest data the loop is run on
MaxLength == 4

\* the signs an entry of out.Data can have
OutSigns == {-1, 0, 1}

RECURSIVE Bits(_, _)
\* for i, v := range out.Data { if v > 0 { c |= 1 << i } }
Bits(out, i) ==
    IF i = 0 THEN 0
    ELSE (IF out[i] > 0 THEN 2 ^ (i - 1) ELSE 0) + Bits(out, i - 1)

\* the test seen[position] on a position that is never found seen
OccupiedNever(seen, position) == FALSE

\* seen[position]
Occupied(seen, position) == position \in seen

\* position, length := 0, len(data); seen := make(map[int]bool, 8)
InitWander ==
    /\ rngs = <<>>
    /\ net = <<>>
    /\ call = <<>>
    /\ fires = <<>>
    /\ sets = <<>>
    /\ hist = <<>>
    /\ feed = <<>>
    /\ \E variant \in {"scan", "break"}, length \in 0..MaxLength :
        loop = [pc |-> "head", variant |-> variant, length |-> length,
                position |-> 0, seen |-> {}, c |-> 0, calls |-> 0]

\* for len(seen) != length {
WanderHead ==
    /\ loop.pc = "head"
    /\ loop' = [loop EXCEPT !.pc = IF Cardinality(loop.seen) # loop.length
                                   THEN "fire" ELSE "done"]
    /\ UNCHANGED <<rngs, net, call, fires, sets, hist, feed>>

\* out := net.Fire(in); c := 0; for i, v := range out.Data { ... }
WanderFire ==
    /\ loop.pc = "fire"
    /\ \E out \in [1..Outputs -> OutSigns] :
        loop' = [loop EXCEPT !.pc = "mark", !.c = Bits(out, Outputs),
                             !.calls = @ + 1]
    /\ UNCHANGED <<rngs, net, call, fires, sets, hist, feed>>

\* seen[position] = true; if len(seen) == length { break }
WanderMark ==
    /\ loop.pc = "mark"
    /\ LET seen == loop.seen \cup {loop.position}
       IN  loop' = [loop EXCEPT !.seen = seen,
                                !.pc = IF Cardinality(seen) = loop.length
                                       THEN "done" ELSE "move"]
    /\ UNCHANGED <<rngs, net, call, fires, sets, hist, feed>>

\* position = c % length; in src/main.go: if seen[position] { break }
WanderMove ==
    /\ loop.pc = "move"
    /\ LET position == loop.c % loop.length
       IN  loop' = [loop EXCEPT !.position = position,
                                !.pc = IF /\ loop.variant = "break"
                                          /\ Occupied(loop.seen, position)
                                       THEN "done" ELSE "scan"]
    /\ UNCHANGED <<rngs, net, call, fires, sets, hist, feed>>

\* for seen[position] { position = (position + 1) % length }: one pass of
\* the loop, or its exit to fmt.Println and the head of the outer loop
WanderScan ==
    /\ loop.pc = "scan"
    /\ loop' = IF Occupied(loop.seen, loop.position)
               THEN [loop EXCEPT !.position = (loop.position + 1) % loop.length]
               ELSE [loop EXCEPT !.pc = "head"]
    /\ UNCHANGED <<rngs, net, call, fires, sets, hist, feed>>

NextWander ==
    WanderHead \/ WanderFire \/ WanderMark \/ WanderMove \/ WanderScan

\* main runs the loop on its own goroutine: a step that can be taken is taken
SpecWander == InitWander /\ [][NextWander]_vars /\ WF_vars(NextWander)

\* Fire is never called, and no iteration starts, at a seen position
NeverAtSeen ==
    loop.pc \in {"fire", "mark"} => loop.position \notin loop.seen

\* every iteration so far has marked one new position, the running one at
\* most one, and there have been at most length Fire calls
OneMarkPerCall ==
    /\ Cardinality(loop.seen) <= loop.calls
    /\ loop.calls <= Cardinality(loop.seen) + 1
    /\ loop.calls <= loop.length
    /\ loop.seen \subseteq 0..(loop.length - 1)

\* a step marks at most one position and unmarks none
MarksOne ==
    /\ loop.seen \subseteq loop'.seen
    /\ Cardinality(loop'.seen) <= Cardinality(loop.seen) + 1

(* C14: the wander-mode loop, for data of any length and whatever vectors    *)
(* Fire returns: no iteration runs at a position already marked seen, an     *)
(* iteration marks at most one new position, and the loop terminates after   *)
(* at most length Fire calls.                                                *)
C14_WanderTerminates ==
    /\ []NeverAtSeen
    /\ []OneMarkPerCall
    /\ [][MarksOne]_vars
    /\ <>(loop.pc = "done")

\* the loop of part_000 has ended after length Fire calls, having stepped
\* over seen positions on the way
C14_Witness ==
    /\ loop.pc = "done"
    /\ loop.variant = "scan"
    /\ loop.length = MaxLength
    /\ loop.calls = loop.length
    /\ loop.seen = 0..(loop.length - 1)
    /\ loop.position # loop.c % loop.length

----------------------------------------------------------------------------
\* w*Mean is an integer in [-w, w] of the parity of w, and the square of the
\* standard deviation is 1 - Mean^2
Moments(x, w) ==
    LET m == x.Mean
    IN  /\ IsFinite(m)
        /\ (w * m.n) % m.d = 0
        /\ (w * m.n) \div m.d \in -w..w
        /\ ((w * m.n) \div m.d + w) % 2 = 0
        /\ x.StdDev = Quo(m.d * m.d - m.n * m.n, m.d * m.d)
        /\ (x.StdDev = F(0)) <=> (m \in {F(1), F(-1)})
        /\ (m = F(0)) => (x.StdDev = F(1))

MomentsOf(set, w) ==
    \A j \in 1..Outputs, k \in 1..Inputs : Moments(set[j][k], w)

MomentsMulti ==
    /\ (call[1].pc \in {"q", "k", "returned"} /\ call[1].windowQ \in 1..Samples)
          => MomentsOf(net[1].Q, call[1].windowQ)
    /\ (call[1].pc \in {"k", "returned"} /\ call[1].windowK \in 1..Samples)
          => MomentsOf(net[1].K, call[1].windowK)
    /\ (call[1].pc = "returned" /\ call[1].windowV \in 1..Samples)
          => MomentsOf(net[1].V, call[1].windowV)

----------------------------------------------------------------------------
(* C16: multi-bank Fire updates the three beliefs all-or-nothing under any   *)
(* interleaving with SetWindow calls: a Fire call that failed has replaced   *)
(* none of Q, K and V; no state has Q replaced by a call that failed before  *)
(* replacing K and V.  (Stated for calls given Samples finite scores whose  *)
(* first update loaded a window in [1, Samples].)                            *)
C16_AllOrNothing ==
    (/\ call[1].pc = "panicked"
     /\ OracleOK(call[1].entropies)
     /\ call[1].windowQ \in 1..Samples) =>
        /\ net[1].Q = call[1].preQ
        /\ net[1].K = call[1].preK
        /\ net[1].V = call[1].preV

====
